---- MODULE Spec2Model ----
(***************************************************************************)
(* The four patch scripts of the repository (fix_orchestrator.py,          *)
(* fix_compilation.py, fix_final_errors.py, fix_logargs.py) as a state     *)
(* machine over a small file system.                                       *)
(*                                                                         *)
(* Text is a sequence of fragments (tokens); the text itself is the        *)
(* concatenation of the fragments.  Every literal and every regular        *)
(* expression of the scripts is written over these fragments, split at the *)
(* characters the patterns' character classes look at (',', ')', '}',      *)
(* white space, word characters).                                          *)
(***************************************************************************)
EXTENDS Integers, Sequences, FiniteSets, TLC

Max(S) == CHOOSE x \in S : \A y \in S : y <= x
Min(S) == CHOOSE x \in S : \A y \in S : x <= y

\* the concatenation of ss[lo..hi]
RECURSIVE FlattenRange(_, _, _)
FlattenRange(ss, lo, hi) ==
    IF lo > hi THEN <<>>
    ELSE IF lo = hi THEN ss[lo]
    ELSE LET mid == (lo + hi) \div 2
         IN FlattenRange(ss, lo, mid) \o FlattenRange(ss, mid + 1, hi)

Flatten(ss) == FlattenRange(ss, 1, Len(ss))

(* ---------------- str.replace(old, new) ---------------- *)

\* old occurs in s at position i
StartsAt(s, i, old) ==
    /\ i + Len(old) - 1 <= Len(s)
    /\ \A k \in 1..Len(old) : s[i + k - 1] = old[k]

\* the scan of str.replace from position i: every non-overlapping occurrence,
\* leftmost first, is replaced; the scan resumes after the occurrence
RECURSIVE ReplaceFrom(_, _, _, _)
ReplaceFrom(s, i, old, new) ==
    IF i > Len(s) THEN <<>>
    ELSE IF StartsAt(s, i, old)
         THEN new \o ReplaceFrom(s, i + Len(old), old, new)
         ELSE <<s[i]>> \o ReplaceFrom(s, i + 1, old, new)

StrReplace(s, old, new) == ReplaceFrom(s, 1, old, new)

(* ---------------- re.sub(pattern, repl, content) ---------------- *)

\* character classes of the patterns, as the fragments that consist of such
\* characters only (\s, \w) or that hold the excluded character ([^,] ...)
SpaceTokens == {" ", "\n", "\n\t", "\r\n"}
WordTokens == {"Info", "Warn", "nil", "Outputs", "node", "nodeInfo", "dnsInfo", "nodeIPs", "x",
               "s", "totalCount"}
CommaTokens == {",", "addonsComponent, err :", "_, err ",
                "for _, nodeConfig := range o.config.Nodes {",
                "for poolName, poolConfig := range o.config.NodePools {",
                "return fmt.Errorf(\"failed to configure OS firewalls: %w\", err"}
RParenTokens == {")", ".ToMapOutput()", "pulumi.String(\"\").ToStringOutput()",
                 "if err := o.configureOSFirewalls(); err != nil {",
                 "len(o.config.Storage.Classes) > 0"}
RBraceTokens == {"}"}

\* one pattern element: a class of fragments, repeated lo..hi times (greedy)
Lit(t) == [neg |-> FALSE, set |-> {t}, lo |-> 1, many |-> FALSE]
Star(S) == [neg |-> FALSE, set |-> S, lo |-> 0, many |-> TRUE]
Plus(S) == [neg |-> FALSE, set |-> S, lo |-> 1, many |-> TRUE]
Opt(S) == [neg |-> FALSE, set |-> S, lo |-> 0, many |-> FALSE]
NotStar(S) == [neg |-> TRUE, set |-> S, lo |-> 0, many |-> TRUE]
NotPlus(S) == [neg |-> TRUE, set |-> S, lo |-> 1, many |-> TRUE]

InClass(t, e) == (t \in e.set) # e.neg

\* the number of consecutive fragments of class e from position i
RECURSIVE RunLen(_, _, _)
RunLen(s, i, e) ==
    IF i > Len(s) \/ ~InClass(s[i], e) THEN 0 ELSE 1 + RunLen(s, i + 1, e)

\* the backtracking match of elements k.. of pat at position i: each element
\* takes the most repetitions that let the rest match; ends[j] is the position
\* after element k+j-1
RECURSIVE MatchFrom(_, _, _, _)
MatchFrom(pat, k, s, i) ==
    IF k > Len(pat) THEN [ok |-> TRUE, ends |-> <<>>]
    ELSE LET e == pat[k]
             run == RunLen(s, i, e)
             hi == IF e.many \/ run = 0 THEN run ELSE 1
             tries == {[n |-> n, rest |-> MatchFrom(pat, k + 1, s, i + n)] : n \in e.lo..hi}
             good == {t \in tries : t.rest.ok}
         IN IF good = {} THEN [ok |-> FALSE, ends |-> <<>>]
            ELSE LET best == CHOOSE t \in good : \A u \in good : u.n <= t.n
                 IN [ok |-> TRUE, ends |-> <<i + best.n>> \o best.rest.ends]

ReMatch(pat, s, i) == MatchFrom(pat, 1, s, i)

\* re.sub: the leftmost match is replaced and the scan resumes after it
RECURSIVE ReSubFrom(_, _, _, _)
Replacement(tag, s, i, ends) ==
    CASE tag = "nil" -> <<"nil">>
      [] tag = "nodes" ->
            <<"for i := range o.config.Nodes {\n\t\tnodeConfig := &o.config.Nodes[i]">>
      [] tag = "pools" ->
            <<"for poolName := range o.config.NodePools {\n\t\tpoolConfig := o.config.NodePools[poolName]">>
      \* r'pulumi.ToMap(\1)': group 1 is elements 2..3, (\w+Outputs)
      [] tag = "tomap" -> <<"pulumi.ToMap(">> \o SubSeq(s, ends[1], ends[3] - 1) \o <<")">>
      \* r'\1nil': group 1 is elements 1..6, (Log\.\w+\([^,]+,\s*)
      [] tag = "g1nil" -> SubSeq(s, i, ends[6] - 1) \o <<"nil">>
      \* replace_message: f'{method}({msg}, nil)', method is elements 1..3
      \* (ctx\.Log\.\w+), msg is element 5 ([^,]+)
      [] tag = "callnil" ->
            SubSeq(s, i, ends[3] - 1) \o <<"(">> \o SubSeq(s, ends[4], ends[5] - 1)
                \o <<",", " ", "nil", ")">>

ReSubFrom(pat, tag, s, i) ==
    IF i > Len(s) THEN <<>>
    ELSE LET m == ReMatch(pat, s, i)
         IN IF m.ok
            THEN Replacement(tag, s, i, m.ends) \o ReSubFrom(pat, tag, s, m.ends[Len(pat)])
            ELSE <<s[i]>> \o ReSubFrom(pat, tag, s, i + 1)

ReSub(pat, tag, s) == ReSubFrom(pat, tag, s, 1)

(* ---------------- the patterns and literals of the scripts ---------------- *)

\* &pulumi\.LogArgs\{\s*Message:\s*pulumi\.Sprintf\([^)]+\)\s*\}
LogArgsPat ==
    <<Lit("&pulumi.LogArgs{"), Star(SpaceTokens), Lit("Message:"), Star(SpaceTokens),
      Lit("pulumi.Sprintf("), NotPlus(RParenTokens), Lit(")"), Star(SpaceTokens), Lit("}")>>

\* &pulumi\.LogArgs\{\s*Message:\s*pulumi\.Sprintf\([^)]+\),?\s*\}
LogArgsCommaPat ==
    <<Lit("&pulumi.LogArgs{"), Star(SpaceTokens), Lit("Message:"), Star(SpaceTokens),
      Lit("pulumi.Sprintf("), NotPlus(RParenTokens), Lit(")"), Opt({","}),
      Star(SpaceTokens), Lit("}")>>

\* for _, nodeConfig := range o\.config\.Nodes \{
NodesPat == <<Lit("for _, nodeConfig := range o.config.Nodes {")>>

\* for poolName, poolConfig := range o\.config\.NodePools \{
PoolsPat == <<Lit("for poolName, poolConfig := range o.config.NodePools {")>>

\* pulumi\.Map\((\w+Outputs)\)
MapOutputsPat == <<Lit("pulumi.Map("), Plus(WordTokens), Lit("Outputs"), Lit(")")>>

\* (Log\.\w+\([^,]+,\s*)&pulumi\.LogArgs\{\s*Message:\s*(pulumi\.Sprintf\([^)]+\))\s*\}
pattern1 ==
    <<Lit("Log."), Plus(WordTokens), Lit("("), NotPlus(CommaTokens), Lit(","),
      Star(SpaceTokens), Lit("&pulumi.LogArgs{"), Star(SpaceTokens), Lit("Message:"),
      Star(SpaceTokens), Lit("pulumi.Sprintf("), NotPlus(RParenTokens), Lit(")"),
      Star(SpaceTokens), Lit("}")>>

\* (ctx\.Log\.\w+)\(([^,]+),\s*&pulumi\.LogArgs\{[^}]*Message:\s*(pulumi\.Sprintf\([^)]+\))[^}]*\}\)
pattern2 ==
    <<Lit("ctx."), Lit("Log."), Plus(WordTokens), Lit("("), NotPlus(CommaTokens), Lit(","),
      Star(SpaceTokens), Lit("&pulumi.LogArgs{"), NotStar(RBraceTokens), Lit("Message:"),
      Star(SpaceTokens), Lit("pulumi.Sprintf("), NotPlus(RParenTokens), Lit(")"),
      NotStar(RBraceTokens), Lit("}"), Lit(")")>>

IfFirewalls == "if err := o.configureOSFirewalls(); err != nil {"
ReturnErrorf == "return fmt.Errorf(\"failed to configure OS firewalls: %w\", err"

\* the literal rules, <<old, new>> of content.replace(old, new): fix_orchestrator.py
OrchLiteral(name) ==
    CASE name = "orch_2a" ->
            <<<<IfFirewalls>>,
              <<"// OS firewall configuration moved to component\n\t// ", IfFirewalls>>>>
      [] name = "orch_2b" ->
            <<<<ReturnErrorf, ")", "\n\t", "}">>,
              <<"// \t", ReturnErrorf, ")", "\n\t", "// ", "}">>>>
      [] name = "orch_4" ->
            <<<<"o.config.", "DNS.">>, <<"o.config.", "Network.", "DNS.">>>>
      [] name = "orch_5" ->
            <<<<"if o.dnsManager != ", "nil", " && ingressIP != nil", " {">>,
              <<"if o.dnsManager != ", "nil", " {">>>>

\* fix_final_errors.py
FinalLiteral(name) ==
    CASE name = "final_1" ->
            <<<<"if ", "o.config.Storage != nil && ", "len(o.config.Storage.Classes) > 0">>,
              <<"if ", "len(o.config.Storage.Classes) > 0">>>>
      [] name = "final_2" ->
            <<<<"o.config.LoadBalancer", "s">>,
              <<"[]*config.LoadBalancerConfig{&", "o.config.LoadBalancer", "}">>>>
      [] name = "comp_1" ->
            <<<<"addonsComponent, err :", "= NewAddonsComponent">>,
              <<"_, err ", "= NewAddonsComponent">>>>
      [] name = "comp_2" ->
            <<<<"component.Nodes = ", "nodeComponent.Nodes", ".ToMapOutput()">>,
              <<"component.Nodes = ", "pulumi.Map{\"nodes\": ", "nodeComponent.Nodes", "}",
                ".ToMapOutput()">>>>

\* fix_compilation.py
CompilationLiteral(name) ==
    CASE name = "rke_map" ->
            <<<<"pulumi.Map(", "nodeInfo", ")">>, <<"pulumi.ToMap(", "nodeInfo", ")">>>>
      [] name = "dns_map" ->
            <<<<"pulumi.Map(", "dnsInfo", ")">>, <<"pulumi.ToMap(", "dnsInfo", ")">>>>
      [] name = "dns_nil" ->
            <<<<"initialIP == ", "nil">>,
              <<"initialIP == ", "pulumi.String(\"\").ToStringOutput()">>>>
      [] name = "wg_map" ->
            <<<<"pulumi.Map(", "nodeIPs", ")">>, <<"pulumi.ToMap(", "nodeIPs", ")">>>>
      [] name = "ssh_pub" ->
            <<<<"s.publicKey == ", "nil">>,
              <<"s.publicKey == ", "pulumi.String(\"\").ToStringOutput()">>>>
      [] name = "ssh_priv" ->
            <<<<"s.privateKey == ", "nil">>,
              <<"s.privateKey == ", "pulumi.String(\"\").ToStringOutput()">>>>

OrchLiterals == {"orch_2a", "orch_2b", "orch_4", "orch_5"}
FinalLiterals == {"final_1", "final_2", "comp_1", "comp_2"}
CompilationLiterals == {"rke_map", "dns_map", "dns_nil", "wg_map", "ssh_pub", "ssh_priv"}
LiteralRules == OrchLiterals \cup FinalLiterals \cup CompilationLiterals

Literal(name) ==
    IF name \in OrchLiterals THEN OrchLiteral(name)
    ELSE IF name \in FinalLiterals THEN FinalLiteral(name)
    ELSE CompilationLiteral(name)

\* the regular expression rules, <<pattern, replacement>> of re.sub: fix_orchestrator.py
OrchRegex(name) ==
    CASE name = "orch_1" -> <<LogArgsPat, "nil">>
      [] name = "orch_3a" -> <<NodesPat, "nodes">>
      [] name = "orch_3b" -> <<PoolsPat, "pools">>

\* fix_final_errors.py
FinalRegex(name) ==
    CASE name = "final_3" -> <<MapOutputsPat, "tomap">>
      [] name = "final_4" -> <<LogArgsCommaPat, "nil">>

\* fix_logargs.py
LogargsRegex(name) ==
    CASE name = "logargs_1" -> <<pattern1, "g1nil">>
      [] name = "logargs_2" -> <<pattern2, "callnil">>

OrchRegexes == {"orch_1", "orch_3a", "orch_3b"}
FinalRegexes == {"final_3", "final_4"}
LogargsRegexes == {"logargs_1", "logargs_2"}
RegexRules == OrchRegexes \cup FinalRegexes \cup LogargsRegexes

Regex(name) ==
    IF name \in OrchRegexes THEN OrchRegex(name)
    ELSE IF name \in FinalRegexes THEN FinalRegex(name)
    ELSE LogargsRegex(name)

(* ---------------- fix_checker: the line window ---------------- *)

WindowStart == 370
WindowEnd == 385

\* f.readlines(): the lines of s[lo..hi], each with its line end; the two halves
\* are split apart and a line cut by the middle is joined again
RECURSIVE SplitLines(_, _, _)
SplitLines(s, lo, hi) ==
    IF lo > hi THEN <<>>
    ELSE IF lo = hi THEN <<<<s[lo]>>>>
    ELSE LET mid == (lo + hi) \div 2
             l == SplitLines(s, lo, mid)
             r == SplitLines(s, mid + 1, hi)
         IN IF s[mid] = "\n" THEN l \o r
            ELSE SubSeq(l, 1, Len(l) - 1) \o <<l[Len(l)] \o r[1]>> \o Tail(r)

ReadLines(s) == SplitLines(s, 1, Len(s))

\* f.writelines(lines)
WriteLines(lines) == Flatten(lines)

\* "totalCount" in lines[i]
HasTotalCount(line) == \E k \in 1..Len(line) : line[k] = "totalCount"

\* the indices i of range(370, 385) with i < len(lines) and "totalCount" in lines[i]
WindowHits(lines) ==
    {i \in WindowStart..(WindowEnd - 1) : i < Len(lines) /\ HasTotalCount(lines[i + 1])}

\* the loop without its break: every hit is commented out
CommentOutAllHits(lines) ==
    [i \in 1..Len(lines) |-> IF (i - 1) \in WindowHits(lines) THEN <<"//">> \o lines[i]
                              ELSE lines[i]]

\* the loop of fix_checker: the first hit is commented out, then break
CommentOutLines(lines) ==
    IF WindowHits(lines) = {} THEN lines
    ELSE [lines EXCEPT ![Min(WindowHits(lines)) + 1] = <<"//">> \o @]

(* ---------------- one rule applied to a content ---------------- *)

ApplyRule(name, s) ==
    IF name \in LiteralRules THEN StrReplace(s, Literal(name)[1], Literal(name)[2])
    ELSE IF name \in RegexRules THEN ReSub(Regex(name)[1], Regex(name)[2], s)
    ELSE WriteLines(CommentOutLines(ReadLines(s)))

(* ---------------- the scripts ---------------- *)

Orchestrator == "internal/orchestrator/orchestrator.go"
Component == "internal/orchestrator/orchestrator_component.go"
Checker == "pkg/health/checker.go"
Rke == "pkg/cluster/rke.go"
DnsManager == "pkg/dns/manager.go"
Wireguard == "pkg/security/wireguard.go"
SshKeys == "pkg/security/sshkeys.go"

\* go_files of fix_logargs.py
go_files ==
    <<DnsManager, Checker, "pkg/health/validator.go", "pkg/network/manager.go",
      "pkg/network/vpn_connectivity.go", "pkg/security/os_firewall.go", SshKeys>>

Scripts == {"fix_orchestrator", "fix_compilation", "fix_final_errors", "fix_logargs"}

\* the files a script patches, in the order of its statements, each with the
\* rules applied to it in order and the line printed once it is written
FileRules(rs, m) == [rules |-> rs, msg |-> m]

OrchestratorFiles == <<Orchestrator>>
CompilationFiles == <<Checker, Rke, DnsManager, Wireguard, SshKeys>>
FinalErrorsFiles == <<Orchestrator, Component>>

Bindings(sc) ==
    CASE sc = "fix_orchestrator" -> OrchestratorFiles
      [] sc = "fix_compilation" -> CompilationFiles
      [] sc = "fix_final_errors" -> FinalErrorsFiles
      [] sc = "fix_logargs" -> go_files

PatchOrchestrator ==
    FileRules(<<"orch_1", "orch_2a", "orch_2b", "orch_3a", "orch_3b", "orch_4", "orch_5">>,
              "Fixed orchestrator.go")

PatchCompilation(p) ==
    CASE p = Checker -> FileRules(<<"checker">>, "Fixed checker.go")
      [] p = Rke -> FileRules(<<"rke_map">>, "Fixed rke.go")
      [] p = DnsManager -> FileRules(<<"dns_map", "dns_nil">>, "Fixed dns/manager.go")
      [] p = Wireguard -> FileRules(<<"wg_map">>, "Fixed wireguard.go")
      [] p = SshKeys -> FileRules(<<"ssh_pub", "ssh_priv">>, "Fixed sshkeys.go")

PatchFinalErrors(p) ==
    CASE p = Orchestrator ->
            FileRules(<<"final_1", "final_2", "final_3", "final_4">>, "Fixed orchestrator.go")
      [] p = Component -> FileRules(<<"comp_1", "comp_2">>, "Fixed orchestrator_component.go")

PatchLogargs == FileRules(<<"logargs_1", "logargs_2">>, "Fixed: ")

Patch(sc, p) ==
    CASE sc = "fix_orchestrator" -> PatchOrchestrator
      [] sc = "fix_compilation" -> PatchCompilation(p)
      [] sc = "fix_final_errors" -> PatchFinalErrors(p)
      [] sc = "fix_logargs" -> PatchLogargs

\* the line printed at the end of the script ("" when there is none)
FinalMessage(sc) ==
    CASE sc = "fix_orchestrator" -> ""
      [] sc = "fix_compilation" -> "All compilation fixes applied"
      [] sc = "fix_final_errors" -> "All errors fixed!"
      [] sc = "fix_logargs" -> "Fixed files"

\* fix_logargs tests os.path.exists before it opens a file, and writes and
\* reports a file only when its content changed; the other scripts do neither
ChecksExists(sc) == sc = "fix_logargs"
WritesOnlyIfChanged(sc) == sc = "fix_logargs"

\* open(path, 'r').read(): text mode turns every line end into "\n"
ReadText(data) == [i \in 1..Len(data) |-> IF data[i] = "\r\n" THEN "\n" ELSE data[i]]

\* the files taken from the last to the first
BindingFromEnd(sc, k) == Bindings(sc)[Len(Bindings(sc)) + 1 - k]

\* the k-th file of the script
BindingAt(sc, k) == Bindings(sc)[k]

\* every rule applied to the content as read
RuleInputAsRead(cur, orig) == orig

\* the content a rule is applied to: the content left by the rule before it
RuleInput(cur, orig) == cur

(* ---------------- the inputs of the model ---------------- *)

\* the most snippets a generated content is made of
MaxSegs == 2
\* the lines a generated checker.go has beyond the window
MaxExtra == 2

SeqsUpTo(S, n) == UNION {[1..m -> S] : m \in 0..n}

\* the contents made of at most MaxSegs snippets of S
Contents(S) == {Flatten(ss) : ss \in SeqsUpTo(S, MaxSegs)}

LogArgsBlock == <<"&pulumi.LogArgs{", "Message:", " ", "pulumi.Sprintf(", "\"f\"", ")", "}">>
CallCtx == <<"ctx.", "Log.", "Info", "(", "\"m\"", ",", " ">> \o LogArgsBlock \o <<")", "\n">>
CallTight == <<"ctx.", "Log.", "Warn", "(", "\"m\"", ",">> \o LogArgsBlock \o <<")", "\n">>
CallExtra ==
    <<"ctx.", "Log.", "Info", "(", "\"m\"", ",", "&pulumi.LogArgs{", "Urgent: true", ",",
      " ", "Message:", "pulumi.Sprintf(", "\"f\"", ",", " ", "x", ")", ",", "}", ")", "\n">>
CallDone == <<"ctx.", "Log.", "Info", "(", "\"m\"", ",", " ", "nil", ")", "\n">>
Plain == <<"x", "\n">>
PlainCrLf == <<"x", "\r\n">>

LogSnippets == {CallCtx, CallTight, CallExtra, CallDone, Plain, LogArgsBlock, <<"Log.", "Info", "(">>}

OrchSnippets ==
    {LogArgsBlock, <<"if o.dnsManager != ">> \o LogArgsBlock, <<"if o.dnsManager != ">>,
     <<"nil">>, <<" && ingressIP != nil", " {">>,
     <<IfFirewalls>>, <<ReturnErrorf, ")", "\n\t", "}">>,
     <<"for _, nodeConfig := range o.config.Nodes {">>,
     <<"for poolName, poolConfig := range o.config.NodePools {">>,
     <<"o.config.">>, <<"DNS.">>, Plain}

FinalSnippets ==
    {<<"if ", "o.config.Storage != nil && ">>, <<"o.config.Storage != nil && ">>,
     <<"len(o.config.Storage.Classes) > 0">>, <<"o.config.LoadBalancer", "s">>, <<"s">>,
     <<"pulumi.Map(", "node">>, <<"Outputs">>, <<"Outputs", ")">>, <<"node", ")">>,
     <<"&pulumi.LogArgs{", "Message:", " ", "pulumi.Sprintf(", "\"f\"", ")", ",", " ">>,
     <<"}">>, LogArgsBlock, Plain}

CompSnippets ==
    {<<"addonsComponent, err :", "= NewAddonsComponent">>, <<"_, err ", "= NewAddonsComponent">>,
     <<"component.Nodes = ", "nodeComponent.Nodes", ".ToMapOutput()">>,
     <<"component.Nodes = ">>, <<"nodeComponent.Nodes", ".ToMapOutput()">>, Plain}

MapSnippets ==
    {<<"pulumi.Map(", "nodeInfo", ")">>, <<"pulumi.Map(", "dnsInfo", ")">>,
     <<"pulumi.Map(", "nodeIPs", ")">>, <<"pulumi.Map(">>, <<"nodeInfo", ")">>,
     <<"initialIP == ", "nil">>, <<"s.publicKey == ", "nil">>, <<"s.privateKey == ", "nil">>,
     <<"s.publicKey == ">>, <<"nil">>, Plain}

\* a checker.go of n lines: empty lines but for those that kind gives
\* ("t": a line with totalCount, "c": that line commented out)
CheckerLine(kind) ==
    CASE kind = "t" -> <<"totalCount", "\n">>
      [] kind = "c" -> <<"//", "totalCount", "\n">>
      [] OTHER -> <<"\n">>

CheckerFile(n, kinds) ==
    Flatten([i \in 1..n |-> CheckerLine(IF (i - 1) \in DOMAIN kinds THEN kinds[i - 1] ELSE "e")])

\* the line indices (0-based) where a generated checker.go may hold totalCount
MarkedLines == {WindowStart - 1, WindowStart, WindowStart + 5, WindowEnd - 1, WindowEnd}

CheckerFiles ==
    {CheckerFile(n, kinds) :
        n \in {0, 1} \cup ((WindowStart - 1)..(WindowEnd + MaxExtra)),
        kinds \in [MarkedLines -> {"e", "t", "c"}]}

CheckerHit == CheckerFile(WindowEnd + 1, (WindowStart + 5 :> "t") @@ (WindowEnd :> "t"))
CheckerMiss == CheckerFile(WindowEnd + 1, (WindowEnd :> "t"))
CheckerShort == CheckerFile(1, (0 :> "t"))
OrchContents == Contents(OrchSnippets)
FinalContents == Contents(FinalSnippets)

\* the contents a file may hold when a script starts
RunInputs(sc, p) ==
    CASE sc = "fix_orchestrator" -> OrchContents
      [] sc = "fix_final_errors" /\ p = Orchestrator -> FinalContents
      [] sc = "fix_final_errors" /\ p = Component ->
            {Plain, <<"addonsComponent, err :", "= NewAddonsComponent", "\r\n">>}
      [] sc = "fix_compilation" /\ p = Checker -> {CheckerHit, CheckerMiss, CheckerShort}
      [] sc = "fix_compilation" /\ p = Rke -> {<<"pulumi.Map(", "nodeInfo", ")", "\n">>}
      [] sc = "fix_compilation" /\ p = DnsManager ->
            {<<"pulumi.Map(", "dnsInfo", ")", "\n", "initialIP == ", "nil">>, Plain, PlainCrLf}
      [] sc = "fix_compilation" /\ p = Wireguard -> {Plain}
      [] sc = "fix_compilation" /\ p = SshKeys ->
            {<<"s.publicKey == ", "nil", "s.privateKey == ", "nil">>, Plain}
      [] sc = "fix_logargs" /\ p \in {DnsManager, Checker, "pkg/health/validator.go"} ->
            {CallTight, CallExtra, PlainCrLf}
      [] sc = "fix_logargs" /\ p \in {"pkg/network/manager.go", SshKeys} -> {CallCtx}
      [] OTHER -> {CallDone}

PathsOf(sc) == {Bindings(sc)[k] : k \in 1..Len(Bindings(sc))}

\* a file: "ok", "missing", "noread" (open for reading fails), "nowrite" (open
\* for writing fails)
File(st, data) == [st |-> st, data |-> data]

\* the contents of the first n files of the script, one choice per file
RECURSIVE DataChoices(_, _)
DataChoices(sc, n) ==
    IF n = 0 THEN {<<>>}
    ELSE {Append(d, c) : d \in DataChoices(sc, n - 1), c \in RunInputs(sc, Bindings(sc)[n])}

\* the file systems a script may start on: every file readable and writable,
\* or one of them missing or without the permission
Disks(sc) ==
    LET n == Len(Bindings(sc))
        faults == {<<0, "ok">>} \cup ((1..n) \X {"missing", "noread", "nowrite"})
        At(d, f, i) == IF f[1] = i THEN File(f[2], IF f[2] = "missing" THEN <<>> ELSE d[i])
                       ELSE File("ok", d[i])
    IN {[p \in PathsOf(sc) |-> At(d, f, CHOOSE i \in 1..n : Bindings(sc)[i] = p)] :
            d \in DataChoices(sc, n), f \in faults}

(* ---------------- the state ---------------- *)

VARIABLES
    script,       \* the script that runs
    disk,         \* path -> file
    pc,           \* "start", "rules", "save", "write", "print", "final", "done", "crashed"
    idx,          \* the file (index in Bindings) the script is at
    k,            \* the next rule of the file
    content,      \* the content in memory
    original,     \* the content as read (original_content of fix_logargs)
    prev,         \* the content before the last rule applied
    rule,         \* the last rule applied
    fixed_count,  \* fixed_count of fix_logargs
    out,          \* the lines printed
    disk0,        \* the file system the script started on
    events,       \* what the script did to the files, in order
    results       \* per file finished: what was read, computed, written, reported

vars == <<script, disk, pc, idx, k, content, original, prev, rule, fixed_count, out, disk0,
          events, results>>

Event(ev, path) == [ev |-> ev, path |-> path]
Line(text, path, n) == [text |-> text, path |-> path, n |-> n]

Init ==
    /\ script \in Scripts
    /\ disk \in Disks(script)
    /\ disk0 = disk
    /\ pc = "start"
    /\ idx = 1
    /\ k = 1
    /\ content = <<>>
    /\ original = <<>>
    /\ prev = <<>>
    /\ rule = ""
    /\ fixed_count = 0
    /\ out = <<>>
    /\ events = <<>>
    /\ results = <<>>

path == BindingAt(script, idx)
rules == Patch(script, path).rules

\* the position after the file at idx
AfterFile == IF idx = Len(Bindings(script)) THEN "final" ELSE "start"

\* fix_logargs: os.path.exists(full_path) is false, the file is passed over
SkipMissing ==
    /\ pc = "start"
    /\ ChecksExists(script)
    /\ disk[path].st = "missing"
    /\ events' = Append(events, Event("skip", path))
    /\ idx' = idx + 1
    /\ pc' = AfterFile
    /\ UNCHANGED <<rule, script, disk, k, content, original, prev, fixed_count, out, disk0,
                   results>>

\* with open(path, 'r') as f: content = f.read()
OpenRead ==
    /\ pc = "start"
    /\ disk[path].st \in {"ok", "nowrite"}
    /\ content' = ReadText(disk[path].data)
    /\ original' = content'
    /\ prev' = content'
    /\ k' = 1
    /\ pc' = "rules"
    /\ events' = Append(events, Event("read", path))
    /\ UNCHANGED <<rule, script, disk, idx, fixed_count, out, disk0, results>>

\* open(path, 'r') raises (no such file, permission denied); nothing catches
\* it and the script ends with a traceback
ReadFail ==
    /\ pc = "start"
    /\ \/ disk[path].st = "noread"
       \/ disk[path].st = "missing" /\ ~ChecksExists(script)
    /\ pc' = "crashed"
    /\ events' = Append(events, Event("readfail", path))
    /\ UNCHANGED <<rule, script, disk, idx, k, content, original, prev, fixed_count, out, disk0,
                   results>>

\* content = content.replace(...) / re.sub(...): the next rule of the file
ApplyStep ==
    /\ pc = "rules"
    /\ prev' = content
    /\ rule' = rules[k]
    /\ content' = ApplyRule(rules[k], RuleInput(content, original))
    /\ k' = k + 1
    /\ pc' = IF k = Len(rules) THEN "save" ELSE "rules"
    /\ UNCHANGED <<script, disk, idx, original, fixed_count, out, disk0, events, results>>

\* the file is written: always, but in fix_logargs only if content != original_content
MustWrite == ~WritesOnlyIfChanged(script) \/ content # original

\* fix_logargs: content == original_content, return False
KeepFile ==
    /\ pc = "save"
    /\ ~MustWrite
    /\ events' = Append(events, Event("keep", path))
    /\ results' = Append(results, [path |-> path, read |-> original, final |-> content,
                                   wrote |-> FALSE, fixed |-> FALSE])
    /\ idx' = idx + 1
    /\ pc' = AfterFile
    /\ UNCHANGED <<rule, script, disk, k, content, original, prev, fixed_count, out, disk0>>

\* open(path, 'w'): the file is truncated
OpenWrite ==
    /\ pc = "save"
    /\ MustWrite
    /\ disk[path].st = "ok"
    /\ disk' = [disk EXCEPT ![path].data = <<>>]
    /\ pc' = "write"
    /\ events' = Append(events, Event("write", path))
    /\ UNCHANGED <<rule, script, idx, k, content, original, prev, fixed_count, out, disk0,
                   results>>

\* open(path, 'w') raises (permission denied): the file is as it was, the script ends
OpenWriteFail ==
    /\ pc = "save"
    /\ MustWrite
    /\ disk[path].st = "nowrite"
    /\ pc' = "crashed"
    /\ events' = Append(events, Event("writefail", path))
    /\ UNCHANGED <<rule, script, disk, idx, k, content, original, prev, fixed_count, out, disk0,
                   results>>

\* f.write(content) and the close of the file
WriteClose ==
    /\ pc = "write"
    /\ disk' = [disk EXCEPT ![path].data = content]
    /\ pc' = "print"
    /\ UNCHANGED <<rule, script, idx, k, content, original, prev, fixed_count, out, disk0,
                   events, results>>

\* the text s cut inside its fragment n + 1: the n fragments before it, then
\* the first c bytes of that fragment
CutAt(s, n, c) == SubSeq(s, 1, n) \o (IF c = 0 THEN <<>> ELSE <<SubSeq(s[n + 1], 1, c)>>)

\* the proper byte prefixes of the text s, each cut taken once
ProperPrefixes(s) ==
    IF s = <<>> THEN {<<>>}
    ELSE {CutAt(s, n, c) : <<n, c>> \in UNION {{<<m, d>> : d \in 0..(Len(s[m + 1]) - 1)} :
                                                 m \in 0..(Len(s) - 1)}}

\* the write raises (disk full, file size limit) or the process is stopped: the
\* truncated file holds the bytes written so far, any proper prefix of the
\* content's bytes, and the script ends
WriteFail ==
    /\ pc = "write"
    /\ \E part \in ProperPrefixes(content) :
          disk' = [disk EXCEPT ![path].data = part]
    /\ pc' = "crashed"
    /\ events' = Append(events, Event("writefail", path))
    /\ UNCHANGED <<rule, script, idx, k, content, original, prev, fixed_count, out, disk0,
                   results>>

\* print("Fixed ..."); in fix_logargs return True and fixed_count += 1
PrintFixed ==
    /\ pc = "print"
    /\ out' = Append(out, Line(Patch(script, path).msg,
                               IF script = "fix_logargs" THEN path ELSE "", 0))
    /\ fixed_count' = IF script = "fix_logargs" THEN fixed_count + 1 ELSE fixed_count
    /\ results' = Append(results, [path |-> path, read |-> original, final |-> content,
                                   wrote |-> TRUE, fixed |-> TRUE])
    /\ idx' = idx + 1
    /\ pc' = AfterFile
    /\ UNCHANGED <<rule, script, disk, k, content, original, prev, disk0, events>>

\* the last print of the script, and its end
Finish ==
    /\ pc = "final"
    /\ out' = IF FinalMessage(script) = "" THEN out
              ELSE Append(out, Line(FinalMessage(script), "", fixed_count))
    /\ pc' = "done"
    /\ UNCHANGED <<rule, script, disk, idx, k, content, original, prev, fixed_count, disk0,
                   events, results>>

Next ==
    \/ SkipMissing
    \/ OpenRead
    \/ ReadFail
    \/ ApplyStep
    \/ KeepFile
    \/ OpenWrite
    \/ OpenWriteFail
    \/ WriteClose
    \/ WriteFail
    \/ PrintFixed
    \/ Finish

Spec == Init /\ [][Next]_vars

(* ---------------- one rule applied to a content, then to its own result ---------------- *)

Rules == LiteralRules \cup RegexRules \cup {"checker"}

CompContents == Contents(CompSnippets)
MapContents == Contents(MapSnippets)
LogContents == Contents(LogSnippets)

\* the contents a rule is tried on: those of the file it patches
RuleInputs(r) ==
    CASE r \in {"orch_1", "orch_2a", "orch_2b", "orch_3a", "orch_3b", "orch_4", "orch_5"} ->
            OrchContents
      [] r \in {"final_1", "final_2", "final_3", "final_4"} -> FinalContents
      [] r \in {"comp_1", "comp_2"} -> CompContents
      [] r \in {"logargs_1", "logargs_2"} -> LogContents
      [] r = "checker" -> CheckerFiles
      [] OTHER -> MapContents

InitRule ==
    /\ rule \in Rules
    /\ original \in RuleInputs(rule)
    /\ content = original
    /\ prev = original
    /\ k = 0
    /\ script = ""
    /\ disk = <<>>
    /\ disk0 = <<>>
    /\ pc = "rule"
    /\ idx = 1
    /\ fixed_count = 0
    /\ out = <<>>
    /\ events = <<>>
    /\ results = <<>>

\* the rule is applied to the content in memory (the script is run, and run again)
ApplyAgain ==
    /\ pc = "rule"
    /\ k < 2
    /\ prev' = content
    /\ content' = ApplyRule(rule, content)
    /\ k' = k + 1
    /\ UNCHANGED <<rule, script, disk, pc, idx, original, fixed_count, out, disk0, events,
                   results>>

SpecRule == InitRule /\ [][ApplyAgain]_vars

(* ---------------- the properties ---------------- *)

Range(f) == {f[i] : i \in DOMAIN f}

\* the pattern matches somewhere in s
ReSearch(pat, s) == \E i \in 1..Len(s) : ReMatch(pat, s, i).ok

OccursAt(s, i, old) == i + Len(old) - 1 <= Len(s) /\ SubSeq(s, i, i + Len(old) - 1) = old

\* the rule's locator finds nothing in s
Absent(r, s) ==
    IF r \in LiteralRules THEN \A i \in 1..Len(s) : ~OccursAt(s, i, Literal(r)[1])
    ELSE IF r \in RegexRules THEN ~ReSearch(Regex(r)[1], s)
    ELSE LET lines == ReadLines(s)
         IN \A i \in WindowStart..(WindowEnd - 1) :
               i < Len(lines) => "totalCount" \notin Range(lines[i + 1])

\* the position of a file in the script's list
IndexOf(p) == CHOOSE i \in 1..Len(Bindings(script)) : Bindings(script)[i] = p

\* the rules rs applied one after the other, each to the result of the one before
RECURSIVE FoldRules(_, _)
FoldRules(rs, s) == IF rs = <<>> THEN s ELSE FoldRules(Tail(rs), ApplyRule(Head(rs), s))

\* C1: a rule applied to its own result changes nothing: the second
\* application leaves the content as the first one made it
C1_Idempotent == k = 2 => content = prev

\* C2: a file is written if and only if the content after its rules differs
\* from the content read
C2_WriteIffChanged ==
    /\ pc = "write" => content # original
    /\ \A i \in 1..Len(results) : results[i].wrote <=> results[i].final # results[i].read

\* C3: when a write fails, the file still holds its original content (or,
\* for a file written before, the complete new content)
C3_AtomicWrite ==
    pc = "crashed" =>
        \A p \in DOMAIN disk :
            \/ disk[p].data = disk0[p].data
            \/ \E i \in 1..Len(results) : results[i].path = p /\ results[i].final = disk[p].data

\* C4: a failure on one file leaves the others alone: when the script has
\* ended, every file of its list has been read, or passed over as missing
C4_FailureIsolation ==
    pc \in {"done", "crashed"} =>
        \A i \in 1..Len(Bindings(script)) :
            \E j \in 1..Len(events) : events[j].path = Bindings(script)[i]

\* the first occurrence of old replaced, every other left alone: what a rule
\* located by Literal(text) is to do
ReplaceFirstOnly(s, old, new) ==
    IF \A i \in 1..Len(s) : ~StartsAt(s, i, old) THEN s
    ELSE LET i == Min({j \in 1..Len(s) : StartsAt(s, j, old)})
         IN SubSeq(s, 1, i - 1) \o new \o SubSeq(s, i + Len(old), Len(s))

\* C5: a literal rule changes the first (leftmost) occurrence of its text only:
\* the result is the input with that one span replaced, every fragment outside
\* it, a second occurrence included, unchanged
C5_FirstOccurrenceOnly ==
    (k >= 1 /\ rule \in LiteralRules) =>
        content = ReplaceFirstOnly(prev, Literal(rule)[1], Literal(rule)[2])

\* no rule of rs finds anything in the content s
RECURSIVE NoneApplies(_, _)
NoneApplies(rs, s) == rs = <<>> \/ (Absent(Head(rs), s) /\ NoneApplies(Tail(rs), s))

\* C6: a rule whose locator finds nothing leaves the content as it was and is
\* reported as not applied: a file in which no rule found anything is not
\* reported as fixed; and the script ends early only on a failed read or
\* write, never on an absence
C6_AbsenceReported ==
    /\ (rule # "" /\ Absent(rule, prev)) => content = prev
    /\ pc = "crashed" =>
          events # <<>> /\ events[Len(events)].ev \in {"readfail", "writefail"}
    /\ \A i \in 1..Len(results) :
          NoneApplies(Patch(script, results[i].path).rules, results[i].read)
              => ~results[i].fixed

\* C7: the rules of a file are applied in their order, each to the content
\* the rules before it left: the content in memory is the fold of the rules
\* applied so far over the content read, and the last rule applied took the
\* content before it to the content after it
C7_RulesInOrder ==
    pc \in {"rules", "save"} =>
        /\ content = FoldRules(SubSeq(rules, 1, k - 1), original)
        /\ k > 1 => rule = rules[k - 1] /\ content = ApplyRule(rule, prev)

\* C7: orch_5 finds nothing in the content read, and fires on the "nil" that
\* orch_1 put there
C7_Witness ==
    /\ script = "fix_orchestrator"
    /\ pc = "save"
    /\ rule = "orch_5"
    /\ Absent("orch_5", original)
    /\ ApplyRule("orch_5", original) = original
    /\ ~Absent("orch_1", original)
    /\ ~Absent("orch_5", prev)
    /\ content # prev

ReadIndices == {IndexOf(events[j].path) : j \in {i \in 1..Len(events) : events[i].ev = "read"}}
WrittenIndices == {IndexOf(events[j].path) : j \in {i \in 1..Len(events) : events[i].ev = "write"}}
SeenIndices == {IndexOf(events[j].path) : j \in 1..Len(events)}

\* C8 as stated: the files read, and the files written, are each a prefix of
\* the script's list
C8_ReadAndWrittenPrefixes ==
    /\ ReadIndices = 1..Cardinality(ReadIndices)
    /\ WrittenIndices = 1..Cardinality(WrittenIndices)

\* C8 as amended: the files are taken one at a time in the order of the list:
\* the files the script has come to are a prefix of the list, what it does to
\* them follows the list's order, and a file is read only after each file
\* before it was passed over as missing, left unwritten or opened for writing,
\* with no write still open
C8_DeclarationOrder ==
    /\ SeenIndices = 1..Cardinality(SeenIndices)
    /\ \A a, b \in 1..Len(events) :
          a < b => IndexOf(events[a].path) <= IndexOf(events[b].path)
    /\ \A b \in 1..Len(events) :
          events[b].ev = "read" =>
              \A i \in 1..(IndexOf(events[b].path) - 1) :
                  \E a \in 1..(b - 1) :
                      /\ events[a].path = Bindings(script)[i]
                      /\ events[a].ev \in {"skip", "keep", "write"}
    /\ pc = "write" => events[Len(events)] = Event("write", Bindings(script)[idx])
    /\ pc = "start" =>
          \A i \in 1..Len(results) :
              disk[results[i].path].data =
                  IF results[i].wrote THEN results[i].final ELSE disk0[results[i].path].data

\* C8: fix_logargs has ended; a file in the middle of its list was missing
\* and never read, and a file before the last one written was left unwritten
C8_Witness ==
    /\ script = "fix_logargs"
    /\ pc = "done"
    /\ ReadIndices # 1..Cardinality(ReadIndices)
    /\ WrittenIndices # 1..Cardinality(WrittenIndices)
    /\ WrittenIndices # {}

\* C9: the line window rule keeps the number of lines; at most one line
\* differs, it is the first line of the window (0-based WindowStart up to
\* WindowEnd - 1, within the file) that holds the substring, now with "//"
\* before it; all other lines are unchanged
C9_LineWindow ==
    (k >= 1 /\ rule = "checker") =>
        LET before == ReadLines(prev)
            after == ReadLines(content)
            inWindow == {i \in WindowStart..(WindowEnd - 1) :
                            i < Len(before) /\ "totalCount" \in Range(before[i + 1])}
            changed == {i \in 0..(Len(before) - 1) : after[i + 1] # before[i + 1]}
        IN /\ Len(after) = Len(before)
           /\ Cardinality(changed) <= 1
           /\ changed \subseteq WindowStart..(WindowEnd - 1)
           /\ inWindow = {} => changed = {}
           /\ inWindow # {} =>
                 /\ changed = {Min(inWindow)}
                 /\ after[Min(inWindow) + 1] = <<"//">> \o before[Min(inWindow) + 1]

\* C9: two lines of the window and lines outside it hold the substring; the
\* rule has commented out the first line of the window
C9_Witness ==
    /\ rule = "checker"
    /\ k = 1
    /\ LET before == ReadLines(prev)
       IN /\ Len(before) > WindowEnd
          /\ "totalCount" \in Range(before[WindowStart])
          /\ "totalCount" \in Range(before[WindowEnd + 1])
          /\ Cardinality({i \in WindowStart..(WindowEnd - 1) :
                             "totalCount" \in Range(before[i + 1])}) = 2
    /\ content # prev

\* C10: the files reported as fixed are the files whose content on disk the
\* run changed, and a file is reported as fixed if and only if the content
\* written differs from the content read
C10_ReportAccurate ==
    pc = "done" =>
        /\ {results[i].path : i \in {j \in 1..Len(results) : results[j].fixed}}
              = {p \in DOMAIN disk : disk[p].data # disk0[p].data}
        /\ \A i \in 1..Len(results) : results[i].fixed <=> results[i].final # results[i].read
====
